---- MODULE Spec2Model ----
(***************************************************************************)
(* A model of src/simulation.js: the flocking robots (Robot,               *)
(* ParticleTrail), the population bookkeeping (initializeRobots), the      *)
(* start/stop lifecycle and the requestAnimationFrame loop (animate).      *)
(*                                                                         *)
(* Numbers.  The program computes in IEEE doubles.  The model computes in  *)
(* fixed point: the integer n stands for n / Unit, Unit = 1000, and every  *)
(* division rounds towards zero.  A THREE.Vector3 is a record              *)
(* [x, y, z, nan]: nan is the set of the components that are NaN (a NaN    *)
(* component holds 0 in its field, so that equal vectors are equal         *)
(* records).  NaN propagates as in IEEE arithmetic and every comparison    *)
(* with NaN is false.                                                      *)
(*                                                                         *)
(* Left out, as they feed nothing back into the simulation: camera,        *)
(* lights, materials, mesh rotation, the wheels, the particles' fading and *)
(* drift, the trail light's flicker and the goal marker's pulse.           *)
(***************************************************************************)
EXTENDS Integers, Sequences, FiniteSets, TLC

VARIABLES
    robots,             \* let robots = []            (simulation.js:427)
    scene,              \* the per-robot objects held by the THREE.Scene
    created,            \* how many Robot objects were ever constructed
    obstacles,          \* const obstacles = []       (simulation.js:52)
    goalPosition,       \* let goalPosition           (simulation.js:25)
    goalMarkerVisible,  \* goalMarker.visible         (simulation.js:33)
    isRunning,          \* let isRunning = false      (simulation.js:429)
    animationId,        \* let animationId = null     (simulation.js:428), 0 is null
    pendingFrames,      \* the browser's pending requestAnimationFrame(animate) handles
    frameCount,         \* the browser's handle counter: handles handed out so far
    startBtnDisabled,   \* startBtn.disabled
    stopBtnDisabled,    \* stopBtn.disabled
    lastOp              \* the last event handled, and how its handler ended

vars == <<robots, scene, created, obstacles, goalPosition, goalMarkerVisible,
          isRunning, animationId, pendingFrames, frameCount,
          startBtnDisabled, stopBtnDisabled, lastOp>>

---------------------------------------------------------------------------------------------------------------------------------------------------
(* Fixed point                                                             *)

Unit == 1000

\* The element of a one-element set.  Val({F(x) : x \in {e}}) is F(e) with e
\* evaluated once, whatever the number of times F uses it: the operators
\* below are written so, a JavaScript call evaluating its arguments once.
Val(S) == CHOOSE v \in S : TRUE

\* a / b rounded towards zero, b > 0
Div(a, b) == Val({IF n >= 0 THEN n \div d ELSE -((-n) \div d) : n \in {a}, d \in {b}})

Abs(a) == Val({IF n >= 0 THEN n ELSE -n : n \in {a}})

Max(a, b) == Val({IF m >= n THEN m ELSE n : m \in {a}, n \in {b}})

Min(a, b) == Val({IF m <= n THEN m ELSE n : m \in {a}, n \in {b}})

RECURSIVE FloorSqrt(_)
FloorSqrt(n) ==
    IF n < 2 THEN n
    ELSE Val({IF (s + 1) * (s + 1) <= n THEN s + 1 ELSE s : s \in {2 * FloorSqrt(n \div 4)}})

\* Math.sqrt, rounded up to the grid
Sqrt(n) == Val({Val({IF s * s = k THEN s ELSE s + 1 : s \in {FloorSqrt(k)}}) : k \in {n}})

----------------------------------------------------------------------------
(* THREE.Vector3                                                           *)

Axes == {"x", "y", "z"}

Vec(x, y, z) == [x |-> x, y |-> y, z |-> z, nan |-> {}]

Zero == Vec(0, 0, 0)

\* the vector (x, y, z) with the components named in nan being NaN
VecNaN(x, y, z, nan) ==
    Val({[x |-> IF "x" \in n THEN 0 ELSE x,
          y |-> IF "y" \in n THEN 0 ELSE y,
          z |-> IF "z" \in n THEN 0 ELSE z,
          nan |-> n] : n \in {nan}})

IsNaN(v) == v.nan # {}

add(a, b) ==
    Val({VecNaN(p.x + q.x, p.y + q.y, p.z + q.z, p.nan \cup q.nan) : p \in {a}, q \in {b}})

subVectors(a, b) ==
    Val({VecNaN(p.x - q.x, p.y - q.y, p.z - q.z, p.nan \cup q.nan) : p \in {a}, q \in {b}})

\* v * s for a finite scalar s (fixed point)
multiplyScalar(v, s) ==
    Val({VecNaN(Div(p.x * s, Unit), Div(p.y * s, Unit), Div(p.z * s, Unit), p.nan)
         : p \in {v}})

\* v / d for a scalar d (fixed point): multiplyScalar(1 / d).  1 / 0 is Infinity,
\* and 0 * Infinity is NaN (a non-zero component would become +-Infinity; the
\* program only ever divides the zero vector by zero, so the model keeps one
\* non-finite value)
divideScalar(v, d) ==
    Val({IF e = 0 THEN VecNaN(0, 0, 0, Axes)
         ELSE VecNaN(Div(p.x * Unit, e), Div(p.y * Unit, e), Div(p.z * Unit, e), p.nan)
         : p \in {v}, e \in {d}})

\* v / count for a whole number count > 0
divideCount(v, count) ==
    Val({VecNaN(Div(p.x, n), Div(p.y, n), Div(p.z, n), p.nan) : p \in {v}, n \in {count}})

lengthSq(v) == Val({p.x * p.x + p.y * p.y + p.z * p.z : p \in {v}})

\* length(); only asked of finite vectors short enough for lengthSq
length(v) == Sqrt(lengthSq(v))

\* v.length() > s, false when the length is NaN
LongerThan(v, s) == Val({~IsNaN(p) /\ lengthSq(p) > s * s : p \in {v}})

MaxAbs(v) == Val({Max(Abs(p.x), Max(Abs(p.y), Abs(p.z))) : p \in {v}})

\* the largest component a vector may have for lengthSq to stay within 32 bits
SquareSafe == 26000

\* v with every component divided by the whole number k
ScaledDown(v, k) == Val({Vec(Div(p.x, n), Div(p.y, n), Div(p.z, n)) : p \in {v}, n \in {k}})

\* normalize(): divideScalar(length() || 1).  A zero vector stays zero; a NaN
\* length is falsy too, so a vector with a NaN component is divided by 1.  A
\* long vector is first scaled down (its direction kept), as a double's
\* exponent would.
normalize(v) ==
    Val({IF IsNaN(p) \/ p = Zero THEN p
         ELSE Val({divideScalar(w, length(w))
                   : w \in {ScaledDown(p, (MaxAbs(p) \div SquareSafe) + 1)}})
         : p \in {v}})

\* a.distanceTo(b) < r, false when the distance is NaN
Within(a, b, r) ==
    Val({/\ ~IsNaN(p) /\ ~IsNaN(q)
         /\ Abs(p.x - q.x) < r /\ Abs(p.y - q.y) < r /\ Abs(p.z - q.z) < r
         /\ lengthSq(subVectors(p, q)) < r * r
         : p \in {a}, q \in {b}})

\* a.distanceTo(b), asked only when Within(a, b, r) for some r
distanceTo(a, b) == length(subVectors(a, b))

\* Math.max(lo, Math.min(hi, c))
ClampAxis(c, lo, hi) == Max(lo, Min(hi, c))

-----
(* Program constants (fixed point)                                         *)

floorSize == 50000          \* const floorSize = 50
boundsMargin == 2000        \* halfFloor - 2, -halfFloor + 2
groundY == 400              \* position.y = 0.4
maxSpeed == 200             \* this.maxSpeed = 0.2
maxForce == 30              \* this.maxForce = 0.03
goalWeight == 500           \* this.goalWeight = 0.5
desiredSeparation == 3000   \* const desiredSeparation = 3.0
neighborDist == 8000        \* const neighborDist = 8.0
avoidRadius == 4000         \* const avoidRadius = 4.0
separationWeight == 1500    \* separation.multiplyScalar(1.5)
cohesionWeight == 500       \* cohesion.multiplyScalar(0.5)
alignmentWeight == 500      \* alignment.multiplyScalar(0.5)
avoidanceWeight == 2000     \* avoidance.multiplyScalar(2.0)
maxParticles == 30          \* this.maxParticles = 30
particleLifetime == 3000    \* this.particleLifetime = 3.0
trailDeltaTime == 16        \* this.trail.update(0.016)
minRobotCount == 3          \* count >= 3
maxRobotCount == 7          \* count <= 7
initialRobotCount == 3      \* initializeRobots(3)

----------------------------------------------------------------------------
(* Robot: steering                                                         *)

\* if (v.length() > max) v.normalize().multiplyScalar(max)
Limit(v, max) ==
    Val({IF LongerThan(p, max) THEN multiplyScalar(normalize(p), max) ELSE p : p \in {v}})

\* Robot.seek(target)
seek(self, target) ==
    Val({Limit(subVectors(desired, self.velocity), maxForce)
         : desired \in {multiplyScalar(normalize(subVectors(target, self.position)),
                                       maxSpeed)}})

\* the closeness-weighted push away from the point other: the difference is
\* normalized, then divided by the distance d
PushFrom(self, other) ==
    divideScalar(normalize(subVectors(self.position, other)),
                 distanceTo(self.position, other))

\* the tail of separate and of avoidObstacles: average, then steer
SteerAway(self, steer, count) ==
    IF count > 0
    THEN Val({IF ~IsNaN(avg) /\ avg # Zero
              THEN Limit(subVectors(multiplyScalar(normalize(avg), maxSpeed),
                                    self.velocity), maxForce)
              ELSE avg
              : avg \in {divideCount(steer, count)}})
    ELSE steer

\* the loop of separate over robots[1..n], for robot i
RECURSIVE SeparateLoop(_, _, _)
SeparateLoop(rs, i, n) ==
    IF n = 0 THEN [steer |-> Zero, count |-> 0]
    ELSE Val({IF n # i /\ Within(rs[i].position, rs[n].position, desiredSeparation)
              THEN [steer |-> add(acc.steer, PushFrom(rs[i], rs[n].position)),
                    count |-> acc.count + 1]
              ELSE acc
              : acc \in {SeparateLoop(rs, i, n - 1)}})

\* Robot.separate(robots)
separate(rs, i) ==
    Val({SteerAway(rs[i], acc.steer, acc.count) : acc \in {SeparateLoop(rs, i, Len(rs))}})

\* the loops of cohere and align over robots[1..n], for robot i
RECURSIVE NeighborLoop(_, _, _)
NeighborLoop(rs, i, n) ==
    IF n = 0 THEN [positions |-> Zero, velocities |-> Zero, count |-> 0]
    ELSE Val({IF n # i /\ Within(rs[i].position, rs[n].position, neighborDist)
              THEN [positions |-> add(acc.positions, rs[n].position),
                    velocities |-> add(acc.velocities, rs[n].velocity),
                    count |-> acc.count + 1]
              ELSE acc
              : acc \in {NeighborLoop(rs, i, n - 1)}})

\* Robot.cohere(robots)
cohere(rs, i) ==
    Val({IF acc.count > 0
         THEN seek(rs[i], divideCount(acc.positions, acc.count))
         ELSE Zero
         : acc \in {NeighborLoop(rs, i, Len(rs))}})

\* Robot.align(robots)
align(rs, i) ==
    Val({IF acc.count > 0
         THEN Limit(subVectors(multiplyScalar(normalize(divideCount(acc.velocities,
                                                                    acc.count)),
                                              maxSpeed),
                               rs[i].velocity), maxForce)
         ELSE Zero
         : acc \in {NeighborLoop(rs, i, Len(rs))}})

\* the loop of avoidObstacles over obstacles[1..n]
RECURSIVE AvoidLoop(_, _, _)
AvoidLoop(self, obs, n) ==
    IF n = 0 THEN [steer |-> Zero, count |-> 0]
    ELSE Val({IF Within(self.position, obs[n], avoidRadius)
              THEN [steer |-> add(acc.steer, PushFrom(self, obs[n])),
                    count |-> acc.count + 1]
              ELSE acc
              : acc \in {AvoidLoop(self, obs, n - 1)}})

\* Robot.avoidObstacles()
avoidObstacles(self, obs) ==
    Val({SteerAway(self, acc.steer, acc.count) : acc \in {AvoidLoop(self, obs, Len(obs))}})

\* Robot.update, "Apply force": the five forces are computed first, then added
\* to the velocity one after the other
AppliedForce(rs, i, obs, goal) ==
    Val({add(add(add(add(add(rs[i].velocity,
                             multiplyScalar(separation, separationWeight)),
                         multiplyScalar(cohesion, cohesionWeight)),
                     multiplyScalar(alignment, alignmentWeight)),
                 multiplyScalar(avoidance, avoidanceWeight)),
             goalSeek)
         : separation \in {separate(rs, i)},
           cohesion \in {cohere(rs, i)},
           alignment \in {align(rs, i)},
           avoidance \in {avoidObstacles(rs[i], obs)},
           goalSeek \in {multiplyScalar(seek(rs[i], goal), goalWeight)}})

\* Robot.update, "Limit velocity"
NewVelocity(rs, i, obs, goal) == Limit(AppliedForce(rs, i, obs, goal), maxSpeed)

\* Robot.update, "Update position" and "Keep within bounds"
NewPosition(position, velocity) ==
    Val({VecNaN(ClampAxis(p.x, -(floorSize \div 2) + boundsMargin,
                               (floorSize \div 2) - boundsMargin),
                groundY,
                ClampAxis(p.z, -(floorSize \div 2) + boundsMargin,
                               (floorSize \div 2) - boundsMargin),
                p.nan \ {"y"})
         : p \in {add(position, velocity)}})

-----
(* ParticleTrail and the scene                                             *)

\* the objects a robot adds to the scene: its mesh group, its trail's light
\* and its trail's particles (pid numbers the particles of one trail)
Mesh(id) == [kind |-> "mesh", robot |-> id, pid |-> 0]

Light(id) == [kind |-> "light", robot |-> id, pid |-> 0]

Particle(id, pid) == [kind |-> "particle", robot |-> id, pid |-> pid]

\* ParticleTrail.update, "Add new particle at robot's position"
SpawnParticle(self) ==
    IF Len(self.particles) < maxParticles
    THEN [self EXCEPT !.particles = Append(@, [pid |-> self.spawned + 1,
                                               lifetime |-> particleLifetime]),
                      !.spawned = @ + 1]
    ELSE self

\* ParticleTrail.update, "Update existing particles": every particle ages by
\* deltaTime, and the particles whose lifetime is over are spliced out
AgeParticles(ps, deltaTime) ==
    SelectSeq([k \in 1..Len(ps) |-> [ps[k] EXCEPT !.lifetime = @ - deltaTime]],
              LAMBDA p : p.lifetime > 0)

PidsOf(ps) == {ps[k].pid : k \in 1..Len(ps)}

\* ParticleTrail.update(deltaTime): the robot with its trail updated, and the
\* scene with the new particle added and the dead ones removed
TrailUpdate(self, sc, deltaTime) ==
    Val({Val({[robot |-> [spawned EXCEPT !.particles = aged],
               scene |-> (sc \cup {Particle(spawned.id, pid)
                                   : pid \in PidsOf(spawned.particles)})
                             \ {Particle(spawned.id, pid)
                                : pid \in PidsOf(spawned.particles) \ PidsOf(aged)}]
              : aged \in {AgeParticles(spawned.particles, deltaTime)}})
         : spawned \in {SpawnParticle(self)}})

\* ParticleTrail.dispose() without its first line: the particles stay
TrailDisposeLightOnly(self, sc) == sc \ {Light(self.id)}

\* ParticleTrail.dispose()
TrailDispose(self, sc) ==
    (sc \ {Particle(self.id, pid) : pid \in PidsOf(self.particles)}) \ {Light(self.id)}

\* Robot.dispose()
RobotDispose(self, sc) == TrailDispose(self, sc) \ {Mesh(self.id)}

\* new Robot(): draw is what Math.random gave for the position and the
\* velocity; the constructor adds the trail's light and the mesh to the scene
NewRobot(id, draw) ==
    [id |-> id, position |-> draw.position, velocity |-> draw.velocity,
     particles |-> <<>>, spawned |-> 0]

----------------------------------------------------------------------------
(* Robot.update and the loop of animate                                    *)

\* Robot.update(robots) of robots[i]: steering, integration, trail
update(rs, sc, i, obs, goal) ==
    Val({Val({[robots |-> [rs EXCEPT ![i] = trail.robot], scene |-> trail.scene]
              : trail \in {TrailUpdate([rs[i] EXCEPT
                                           !.velocity = velocity,
                                           !.position = NewPosition(rs[i].position,
                                                                    velocity)],
                                       sc, trailDeltaTime)}})
         : velocity \in {NewVelocity(rs, i, obs, goal)}})

\* for (const robot of robots) robot.update(robots), after n robots: each
\* update works on the array as the updates before it left it
RECURSIVE UpdateLoop(_, _, _, _, _)
UpdateLoop(rs, sc, n, obs, goal) ==
    IF n = 0 THEN [robots |-> rs, scene |-> sc]
    ELSE Val({update(before.robots, before.scene, n, obs, goal)
              : before \in {UpdateLoop(rs, sc, n - 1, obs, goal)}})

----------------------------------------------------------------------------
(* Bounds of the model and its inputs                                      *)

MaxFrames == 3          \* requestAnimationFrame(animate) is called at most this often
MaxTrailFrames == 191   \* the same, in the long runs of SpecTrail
MaxCreated == 7         \* at most this many Robot objects are ever constructed
MaxCount == 4           \* the largest population that is asked for and accepted

\* what parseInt(robotCountInput.value) may give: below, in and above the
\* accepted range
CountInputs == {-1, minRobotCount, MaxCount, maxRobotCount + 1}

\* Math.random: the generator's hidden state decides the whole sequence of
\* draws of one initializeRobots call; the model knows three such sequences
Seeds == 1..3

\* the position and velocity drawn for the k-th robot: positions in
\* [-23, 23) on x and z, velocities in [-0.05, 0.05)
RandomDraw(seed, k) ==
    CASE seed = 1 ->    \* far apart: nobody within neighborDist of anybody
             [position |-> Vec(-21000 + 7000 * (k - 1), groundY,
                               IF k % 2 = 1 THEN 5000 ELSE -5000),
              velocity |-> Vec(10 * k - 40, 0, 45 - 10 * k)]
      [] seed = 2 ->    \* the first two head for the same corner of the floor
             IF k <= 2
             THEN [position |-> Vec(22985 + 5 * k, groundY, 22985 + 5 * k),
                   velocity |-> Vec(45, 0, 45)]
             ELSE [position |-> Vec(-20000 + 6000 * (k - 3), groundY, -10000),
                   velocity |-> Vec(-20, 0, 10)]
      [] OTHER ->       \* a flock: everybody within range of everybody
             [position |-> Vec(11000 + 700 * k, groundY, 8000 + 500 * (k % 3)),
              velocity |-> Vec(20 - 10 * (k % 4), 0, 5 * k - 20)]

\* the obstacles' mesh positions, as one load of the page drew them: x and z
\* in [-23, 23), y = 1 for a box (size / 2), 1.5 for a cylinder (height / 2)
\* and for a sphere (radius)
ObstacleLayout ==
    << Vec(-15000, 1000, -15000), Vec(15000, 1500, -15000),
       Vec(-15000, 1500, 15000),  Vec(12000, 1000, 12000),
       Vec(0, 1500, -20000),      Vec(0, 1000, 20000),
       Vec(-22000, 1500, 0),      Vec(21000, 1500, 21000) >>

\* where a click may hit the floor (intersects[0].point, x and z in [-25, 25])
GoalPicks == { Vec(24000, 0, 24000), Vec(-5000, 0, 3000) }

----------------------------------------------------------------------------
(* The program's state as one value, and the handlers as functions of it   *)

State ==
    [robots |-> robots, scene |-> scene, created |-> created,
     obstacles |-> obstacles, goalPosition |-> goalPosition,
     goalMarkerVisible |-> goalMarkerVisible, isRunning |-> isRunning,
     animationId |-> animationId, pendingFrames |-> pendingFrames,
     frameCount |-> frameCount, startBtnDisabled |-> startBtnDisabled,
     stopBtnDisabled |-> stopBtnDisabled]

Commit(st) ==
    \E s \in {st} :
        /\ robots' = s.robots
        /\ scene' = s.scene
        /\ created' = s.created
        /\ obstacles' = s.obstacles
        /\ goalPosition' = s.goalPosition
        /\ goalMarkerVisible' = s.goalMarkerVisible
        /\ isRunning' = s.isRunning
        /\ animationId' = s.animationId
        /\ pendingFrames' = s.pendingFrames
        /\ frameCount' = s.frameCount
        /\ startBtnDisabled' = s.startBtnDisabled
        /\ stopBtnDisabled' = s.stopBtnDisabled

\* robots.forEach(robot => robot.dispose()), over robots[1..n]
RECURSIVE DisposeAll(_, _, _)
DisposeAll(rs, sc, n) ==
    IF n = 0 THEN sc ELSE RobotDispose(rs[n], DisposeAll(rs, sc, n - 1))

\* for (let i = 0; i < count; i++) robots.push(new Robot()): no robot when
\* count <= 0
CreateRobots(first, count, seed) ==
    [k \in 1..count |-> NewRobot(first + k, RandomDraw(seed, k))]

\* initializeRobots(count) without robots = []: the new robots are pushed
\* after the disposed ones
initializeRobotsKeepsOld(st, count, seed) ==
    Val({Val({[s EXCEPT !.robots = @ \o fresh,
                        !.created = @ + Len(fresh),
                        !.scene = DisposeAll(s.robots, s.scene, Len(s.robots))
                                      \cup {Light(fresh[k].id) : k \in 1..Len(fresh)}
                                      \cup {Mesh(fresh[k].id) : k \in 1..Len(fresh)}]
              : fresh \in {CreateRobots(s.created, count, seed)}})
         : s \in {st}})

\* initializeRobots(count)
initializeRobots(st, count, seed) ==
    Val({Val({[s EXCEPT !.robots = fresh,
                        !.created = @ + Len(fresh),
                        !.scene = DisposeAll(s.robots, s.scene, Len(s.robots))
                                      \cup {Light(fresh[k].id) : k \in 1..Len(fresh)}
                                      \cup {Mesh(fresh[k].id) : k \in 1..Len(fresh)}]
              : fresh \in {CreateRobots(s.created, count, seed)}})
         : s \in {st}})

\* animate(currentTime)
animate(st) ==
    Val({IF ~s.isRunning THEN s
         ELSE Val({[s EXCEPT !.animationId = s.frameCount + 1,
                             !.frameCount = s.frameCount + 1,
                             !.pendingFrames = @ \cup {s.frameCount + 1},
                             !.robots = after.robots,
                             !.scene = after.scene]
                   : after \in {UpdateLoop(s.robots, s.scene, Len(s.robots),
                                           s.obstacles, s.goalPosition)}})
         : s \in {st}})

\* startSimulation()
startSimulation(st) ==
    Val({IF ~s.isRunning
         THEN animate([s EXCEPT !.isRunning = TRUE,
                                !.startBtnDisabled = TRUE,
                                !.stopBtnDisabled = FALSE])
         ELSE s
         : s \in {st}})

\* stopSimulation() without isRunning = false
stopSimulationKeepsFlag(st) ==
    Val({IF s.isRunning
         THEN [s EXCEPT !.startBtnDisabled = FALSE,
                        !.stopBtnDisabled = TRUE,
                        !.pendingFrames = IF s.animationId # 0
                                          THEN @ \ {s.animationId} ELSE @]
         ELSE s
         : s \in {st}})

\* stopSimulation() without cancelAnimationFrame
stopSimulationKeepsFrame(st) ==
    Val({IF s.isRunning
         THEN [s EXCEPT !.isRunning = FALSE,
                        !.startBtnDisabled = FALSE,
                        !.stopBtnDisabled = TRUE]
         ELSE s
         : s \in {st}})

\* stopSimulation(): cancelAnimationFrame(animationId) when animationId is set
stopSimulation(st) ==
    Val({IF s.isRunning
         THEN [s EXCEPT !.isRunning = FALSE,
                        !.startBtnDisabled = FALSE,
                        !.stopBtnDisabled = TRUE,
                        !.pendingFrames = IF s.animationId # 0
                                          THEN @ \ {s.animationId} ELSE @]
         ELSE s
         : s \in {st}})

\* count >= 3 && count <= 7
CountAccepted(count) == count >= minRobotCount /\ count <= maxRobotCount

\* the click handler of addRobotBtn
addRobotClick(st, count, seed) ==
    IF CountAccepted(count)
    THEN Val({IF replaced.isRunning
              THEN startSimulation(stopSimulation(replaced))
              ELSE replaced
              : replaced \in {initializeRobots(st, count, seed)}})
    ELSE st

\* onMouseClick(event): hit is where the ray meets the floor
onMouseClick(st, hit) ==
    [st EXCEPT !.goalPosition = Vec(hit.x, groundY, hit.z),
               !.goalMarkerVisible = TRUE]

---------------------------------------------------------------------------------------------------------------------------------------------------
(* The page: load, the clicks and the animation frames                     *)

Op(op, count, outcome) == [op |-> op, count |-> count, outcome |-> outcome]

\* the state before initializeRobots(3) at the end of the script
Loaded(layout, stopDisabled) ==
    [robots |-> <<>>, scene |-> {}, created |-> 0,
     obstacles |-> layout, goalPosition |-> Vec(0, 0, 0),
     goalMarkerVisible |-> FALSE, isRunning |-> FALSE,
     animationId |-> 0, pendingFrames |-> {}, frameCount |-> 0,
     startBtnDisabled |-> FALSE, stopBtnDisabled |-> stopDisabled]

\* the script has run: the obstacles are placed and initializeRobots(3) has
\* made the first robots.  Whether the page's markup disables the stop button
\* is not the script's doing.
InitFrom(seeds, stopDisableds) ==
    \E seed \in seeds, stopDisabled \in stopDisableds :
        \E st \in {initializeRobots(Loaded(ObstacleLayout, stopDisabled),
                                    initialRobotCount, seed)} :
            /\ robots = st.robots
            /\ scene = st.scene
            /\ created = st.created
            /\ obstacles = st.obstacles
            /\ goalPosition = st.goalPosition
            /\ goalMarkerVisible = st.goalMarkerVisible
            /\ isRunning = st.isRunning
            /\ animationId = st.animationId
            /\ pendingFrames = st.pendingFrames
            /\ frameCount = st.frameCount
            /\ startBtnDisabled = st.startBtnDisabled
            /\ stopBtnDisabled = st.stopBtnDisabled
            /\ lastOp = Op("load", initialRobotCount, "done")

Init == InitFrom(Seeds, BOOLEAN)

\* a click on startBtn (a disabled button gets no click)
StartWithin(frames) ==
    /\ ~startBtnDisabled
    /\ isRunning \/ frameCount < frames
    /\ Commit(startSimulation(State))
    /\ lastOp' = Op("start", 0, IF isRunning THEN "ignored" ELSE "done")

StartClick == StartWithin(MaxFrames)

\* a click on stopBtn
StopClick ==
    /\ ~stopBtnDisabled
    /\ Commit(stopSimulation(State))
    /\ lastOp' = Op("stop", 0, IF isRunning THEN "done" ELSE "ignored")

\* a click on addRobotBtn with a count the handler accepts
ResizeWithin(counts, seeds, frames) ==
    \E count \in counts, seed \in seeds :
        /\ CountAccepted(count)
        /\ created + count <= MaxCreated
        /\ isRunning => frameCount < frames
        /\ Commit(addRobotClick(State, count, seed))
        /\ lastOp' = Op("resize", count, "accepted")

ResizeClick == ResizeWithin(CountInputs, Seeds, MaxFrames)

\* a click on addRobotBtn with a count the handler does not accept: the
\* handler returns, nothing is thrown or reported
ResizeIgnored ==
    \E count \in CountInputs :
        /\ ~CountAccepted(count)
        /\ Commit(addRobotClick(State, count, 1))
        /\ lastOp' = Op("resize", count, "ignored")

\* a click on the canvas that hits the floor
GoalClick ==
    \E hit \in GoalPicks :
        /\ Commit(onMouseClick(State, hit))
        /\ lastOp' = Op("goal", 0, "done")

\* a click on the canvas that misses the floor: intersects.length = 0
GoalMiss ==
    /\ Commit(State)
    /\ lastOp' = Op("goal", 0, "ignored")

\* the browser runs a pending requestAnimationFrame callback
FrameWithin(frames) ==
    \E id \in pendingFrames :
        /\ frameCount < frames
        /\ Commit(animate([State EXCEPT !.pendingFrames = @ \ {id}]))
        /\ lastOp' = Op("frame", 0, IF isRunning THEN "done" ELSE "ignored")

Frame == FrameWithin(MaxFrames)

Next ==
    \/ StartClick
    \/ StopClick
    \/ ResizeClick
    \/ ResizeIgnored
    \/ GoalClick
    \/ GoalMiss
    \/ Frame

Spec == Init /\ [][Next]_vars

----------------------------------------------------------------------------
(* The functions called directly, without the page's buttons: any count,   *)
(* start and stop in either state                                          *)

CallInitializeRobots ==
    \E count \in 0..MaxCount, seed \in Seeds :
        /\ created + count <= MaxCreated
        /\ Commit(initializeRobots(State, count, seed))
        /\ lastOp' = Op("initializeRobots", count, "done")

CallStartSimulation ==
    /\ isRunning \/ frameCount < MaxFrames
    /\ Commit(startSimulation(State))
    /\ lastOp' = Op("startSimulation", 0, IF isRunning THEN "ignored" ELSE "done")

CallStopSimulation ==
    /\ Commit(stopSimulation(State))
    /\ lastOp' = Op("stopSimulation", 0, IF isRunning THEN "done" ELSE "ignored")

NextCore ==
    \/ CallInitializeRobots
    \/ CallStartSimulation
    \/ CallStopSimulation
    \/ GoalClick
    \/ Frame

SpecCore == InitFrom({1}, {FALSE}) /\ [][NextCore]_vars

----------------------------------------------------------------------------
(* Long runs, for the trails: one load, the robots far apart, the          *)
(* population replaced by as many robots                                   *)

TrailStart == StartWithin(MaxTrailFrames)

TrailResize == ResizeWithin({minRobotCount}, {1}, MaxTrailFrames)

TrailFrame == FrameWithin(MaxTrailFrames)

NextTrail ==
    \/ TrailStart
    \/ TrailResize
    \/ TrailFrame

SpecTrail == InitFrom({1}, {TRUE}) /\ [][NextTrail]_vars

----------------------------------------------------------------------------
(* The claims                                                              *)

Indices == 1..Len(robots)

Ids(rs) == {rs[k].id : k \in 1..Len(rs)}

\* the accepted range of x and z: [-halfFloor + 2, halfFloor - 2]
InBounds(c) ==
    /\ c >= -(floorSize \div 2) + boundsMargin
    /\ c <= (floorSize \div 2) - boundsMargin

\* C1: every robot's speed is a number and at most maxSpeed, from its
\* creation on and after every update
C1_SpeedBound ==
    \A i \in Indices :
        /\ ~IsNaN(robots[i].velocity)
        /\ lengthSq(robots[i].velocity) <= maxSpeed * maxSpeed

\* C2: every robot's x and z are numbers within the floor minus the margin,
\* and its y is the ground offset, from its creation on and after every update
C2_BoundsContainment ==
    \A i \in Indices :
        /\ "x" \notin robots[i].position.nan /\ InBounds(robots[i].position.x)
        /\ "z" \notin robots[i].position.nan /\ InBounds(robots[i].position.z)
        /\ "y" \notin robots[i].position.nan /\ robots[i].position.y = groundY

\* what a step computes for robot i from the positions and velocities rs the
\* robots had before the step
FromSnapshot(rs, i, obs, goal) ==
    Val({[velocity |-> velocity, position |-> NewPosition(rs[i].position, velocity)]
         : velocity \in {NewVelocity(rs, i, obs, goal)}})

\* no two robots are at the same place and no robot's state is NaN: the
\* step that follows divides by no zero distance
Regular(rs) ==
    /\ \A i \in 1..Len(rs) : ~IsNaN(rs[i].position) /\ ~IsNaN(rs[i].velocity)
    /\ \A i, j \in 1..Len(rs) : i # j => rs[i].position # rs[j].position

\* C3: a frame's step gives every robot the velocity and the position computed
\* from the state all robots had before the step (stated for the steps that
\* start with no two robots at the same place, so that it is the order of the
\* updates alone that decides it)
C3_SimultaneousUpdate ==
    [][lastOp'.op = "frame" /\ isRunning /\ Regular(robots)
       => \A i \in Indices :
              \E next \in {FromSnapshot(robots, i, obstacles, goalPosition)} :
                  /\ robots'[i].velocity = next.velocity
                  /\ robots'[i].position = next.position]_vars

\* C9: no robot's position or velocity is ever NaN: no division by a zero
\* distance is ever made
C9_ZeroDistanceGuard ==
    \A i \in Indices : ~IsNaN(robots[i].position) /\ ~IsNaN(robots[i].velocity)

\* an accepted resize or a start: the clicks that may change the robots
\* while the simulation is stopped
Restarts(op) == op.op = "start" \/ (op.op = "resize" /\ op.outcome = "accepted")

\* C4: a stop click leaves the simulation stopped with the robots as they
\* were, and while it is stopped nothing but a start or an accepted resize
\* changes a robot or sets it running again
C4_StoppedMeansFrozen ==
    [][/\ lastOp'.op = "stop" => ~isRunning' /\ robots' = robots
       /\ ~isRunning /\ ~Restarts(lastOp') => ~isRunning' /\ robots' = robots]_vars

\* C4's case: the simulation ran, was stopped, and an event came after the stop
C4_Witness ==
    /\ lastOp.op = "goal"
    /\ ~isRunning
    /\ frameCount >= 2
    /\ \E i \in Indices : robots[i].spawned >= 2

\* the robots of rs are as their constructor leaves them: no particle yet,
\* position and velocity as drawn
Fresh(rs) ==
    \A k \in 1..Len(rs) :
        /\ rs[k].particles = <<>>
        /\ rs[k].spawned = 0
        /\ \E seed \in Seeds :
               /\ rs[k].position = RandomDraw(seed, k).position
               /\ rs[k].velocity = RandomDraw(seed, k).velocity

\* C5: initializeRobots(n), n >= 0, running or not, leaves exactly n robots,
\* all new and as constructed, and leaves isRunning as it was; a frame that
\* follows updates those robots
C5_PopulationResize ==
    [][/\ lastOp'.op = "initializeRobots"
          => /\ Len(robots') = lastOp'.count
             /\ Ids(robots') \cap Ids(robots) = {}
             /\ Fresh(robots')
             /\ isRunning' = isRunning
       /\ lastOp'.op = "frame" /\ isRunning
          => /\ Ids(robots') = Ids(robots)
             /\ \A i \in Indices : robots'[i].spawned = robots[i].spawned + 1]_vars

\* C5's case: the robots had run, and were replaced by none while running
C5_Witness ==
    /\ lastOp.op = "initializeRobots"
    /\ lastOp.count = 0
    /\ robots = <<>>
    /\ isRunning
    /\ frameCount >= 2

\* C6: with no goal picked, a robot that is alone and has no obstacle within
\* avoidRadius keeps its velocity through a step and moves by it
C6_NoGoalNoForce ==
    [][/\ lastOp'.op = "frame" /\ isRunning
       /\ Len(robots) = 1
       /\ ~goalMarkerVisible
       /\ \A k \in 1..Len(obstacles) :
              ~Within(robots[1].position, obstacles[k], avoidRadius)
       => /\ robots'[1].velocity = robots[1].velocity
          /\ robots'[1].position = NewPosition(robots[1].position, robots[1].velocity)]_vars

\* C7: a resize asked with a negative count is answered by an invalid-argument
\* signal and leaves the robots as they were
C7_NegativeCountRejected ==
    [][lastOp'.op = "resize" /\ lastOp'.count < 0
       => lastOp'.outcome = "invalid-argument" /\ robots' = robots]_vars

\* what the robots rs own in the scene: each its mesh, its light and the
\* particles of its trail
SceneOf(rs) ==
    UNION {{Mesh(rs[k].id), Light(rs[k].id)}
               \cup {Particle(rs[k].id, pid) : pid \in PidsOf(rs[k].particles)}
           : k \in 1..Len(rs)}

\* C8: the scene holds the meshes, lights and live particles of the current
\* robots and nothing of a robot that was replaced
C8_ResourcesReleased == scene = SceneOf(robots)

\* C8's case: the robots ran until particles of their trails had died, and
\* were then replaced
C8_Witness ==
    /\ lastOp.op = "resize"
    /\ frameCount >= 190
    /\ Ids(robots) = 4..6

OneLoop ==
    /\ Cardinality(pendingFrames) = IF isRunning THEN 1 ELSE 0
    /\ isRunning => pendingFrames = {animationId}

\* C10: exactly one animate callback is pending while running and none while
\* stopped, and a start or stop click that finds the simulation already in
\* that state changes nothing
C10_SingleTickLoop ==
    /\ OneLoop
    /\ [][/\ OneLoop'
          /\ lastOp'.op \in {"start", "stop"} /\ lastOp'.outcome = "ignored"
             => UNCHANGED <<robots, scene, isRunning, animationId, pendingFrames,
                            frameCount>>]_vars

\* C10's case: a resize while running went through stop and start, after
\* frames had run
C10_Witness ==
    /\ lastOp.op = "resize"
    /\ lastOp.outcome = "accepted"
    /\ isRunning
    /\ frameCount >= 3
    /\ Cardinality(pendingFrames) = 1

====
